---- MODULE Spec2Model ----
(***************************************************************************)
(* A model of blenderExporter.py (the Idoneus Blender dumper).              *)
(*                                                                         *)
(* Numbers.  Coordinates (positions, normals, texture coordinates) are     *)
(* integers counting units of 2^-24, so that pow(2, -23) is 2 units and    *)
(* 1.0 is 2^24 units.  On this grid, and for magnitudes far below 2^29,    *)
(* the additions and comparisons of coord_index are exact in IEEE doubles, *)
(* which is what Python computes with.                                     *)
(*                                                                         *)
(* Output.  An element of the list the dump functions append to is the     *)
(* pair <<format, arguments>> of the Python expression "format % args";    *)
(* the rendering of the arguments into text is not modelled.               *)
(***************************************************************************)
EXTENDS Integers, Sequences, FiniteSets, TLC

VARIABLES
    pc,         \* position of the running function
    mesh,       \* dumpMeshData: the mesh argument
    fi, ci,     \* dumpMeshData: the loop variables face (1-based) and i (1-based)
    s,          \* dumpMeshData / dumpTextureData: the list of output records
    verts, normals, textures, \* dumpMeshData: the three accumulated arrays
    calls,      \* history: the coord_index calls made so far
    vertsBy, normalsBy, texturesBy, \* history: the call that appended each entry
    mat,        \* dumpTextureData: the material argument
    scene,      \* exportDump: what the host returns for GetSelected() and Get()
    objects,    \* exportDump: the list of mesh objects to export
    oi,         \* exportDump: position of the loop over objects (1-based)
    strings,    \* exportDump: the list of output records
    disk0,      \* the file <first object's name>.dump before the export
    disk,       \* the same file now
    fout        \* exportDump: whether the output file is open

vars == <<pc, mesh, fi, ci, s, verts, normals, textures, calls, vertsBy,
          normalsBy, texturesBy, mat, scene, objects, oi, strings, disk0,
          disk, fout>>

meshVars == <<mesh, fi, ci, verts, normals, textures, calls, vertsBy,
              normalsBy, texturesBy>>
exportVars == <<scene, objects, oi, strings, disk0, disk, fout>>

----------------------------------------------------------------------------
(* Bounds of the model *)

\* largest deviation, in units of 2^-24, of a coordinate from its base value
MaxDev == 2
\* largest number of face corners of a mesh with several faces
MaxCorners == 7
\* longest texture-slot list whose slots are all plain
MaxSlots == 6
\* longest texture-slot list whose slots take every kind and bitmask
MaxWideSlots == 2
\* largest maps-to bitmask
MaxMapTo == 31
\* largest number of objects the host returns
MaxObjects == 2

----------------------------------------------------------------------------
(* Values *)

\* Python's None; every optional value of the model is a tuple or a record
None == <<>>

\* 1.0 in units of 2^-24
One == 2^24

\* format % args
Line(fmt, args) == <<fmt, args>>

\* int(b) of a Python bool
int(b) == IF b THEN 1 ELSE 0

min(a, b) == IF a < b THEN a ELSE b

----------------------------------------------------------------------------
(* coord_index *)

\* m_eps = pow(2, -23), in units of 2^-24
m_eps == 2

\* mutant of Near: the comparisons are not strict
NearInclusive(old, new) == old - m_eps <= new /\ old + m_eps >= new

\* mutant of Near: equality instead of a tolerance
NearExact(old, new) == old = new

\* old-m_eps < new and old+m_eps > new
Near(old, new) == old - m_eps < new /\ old + m_eps > new

\* mutant of PosMatch: the third axis is not compared
PosMatchXY(e, v) == Near(e[1], v[1]) /\ Near(e[2], v[2])

PosMatch(e, v) == Near(e[1], v[1]) /\ Near(e[2], v[2]) /\ Near(e[3], v[3])

\* mutant of NormMatch: the third axis is not compared
NormMatchXY(e, n) == Near(e[1], n[1]) /\ Near(e[2], n[2])

NormMatch(e, n) == Near(e[1], n[1]) /\ Near(e[2], n[2]) /\ Near(e[3], n[3])

TexMatch(e, t) == Near(e[1], t[1]) /\ Near(e[2], t[2])

\* whether the loop body returns at (1-based) entry i
ReturnsAt(i, v, n, t, vs, ns, ts) ==
    /\ PosMatch(vs[i], v)
    /\ IF n # None /\ NormMatch(ns[i], n)
       THEN \/ t # None /\ TexMatch(ts[i], t)
            \/ t = None
       ELSE \/ n = None /\ t # None /\ TexMatch(ts[i], t)
            \/ n = None /\ t = None

\* the loop over range(len(verts)): the first entry it returns at, 0 if none
RECURSIVE FirstHit(_, _, _, _, _, _, _)
FirstHit(i, v, n, t, vs, ns, ts) ==
    IF i > Len(vs) THEN 0
    ELSE IF ReturnsAt(i, v, n, t, vs, ns, ts) THEN i
    ELSE FirstHit(i + 1, v, n, t, vs, ns, ts)

\* mutant of coord_index: the normal is appended on every call
coord_index_AlwaysNormal(v, n, t, vs, ns, ts) ==
    LET hit == FirstHit(1, v, n, t, vs, ns, ts)
    IN  IF hit # 0
        THEN [index |-> hit - 1, verts |-> vs, normals |-> Append(ns, n),
              textures |-> ts]
        ELSE [index    |-> Len(Append(vs, v)) - 1,
              verts    |-> Append(vs, v),
              normals  |-> Append(ns, n),
              textures |-> IF t # None THEN Append(ts, t) ELSE ts]

\* the result: the returned (0-based) index and the three lists afterwards
coord_index(v, n, t, vs, ns, ts) ==
    LET hit == FirstHit(1, v, n, t, vs, ns, ts)
    IN  IF hit # 0
        THEN [index |-> hit - 1, verts |-> vs, normals |-> ns, textures |-> ts]
        ELSE [index    |-> Len(Append(vs, v)) - 1,
              verts    |-> Append(vs, v),
              normals  |-> IF n # None THEN Append(ns, n) ELSE ns,
              textures |-> IF t # None THEN Append(ts, t) ELSE ts]

----------------------------------------------------------------------------
(* dumpMeshData *)

\* the normal and the texture coordinate the loop body picks for corner i
CornerNormal(face, i) == IF face.smooth THEN face.verts[i].no ELSE face.no

CornerUV(m, face, i) == IF m.faceUV THEN face.uv[i] ELSE None

\* the "Indices:" record
MeshHeader(m) ==
    Line("Indices: %d %d",
         <<Len(m.faces) * Len(m.faces[1].verts), Len(m.faces[1].verts)>>)

\* one iteration of the inner loop, on st = [s, verts, normals, textures]
IndexCorner(st, m, f, i) ==
    LET face == m.faces[f]
        r == coord_index(face.verts[i].co, CornerNormal(face, i),
                         CornerUV(m, face, i), st.verts, st.normals, st.textures)
    IN  [s |-> Append(st.s, Line("%d", <<r.index>>)),
         verts |-> r.verts, normals |-> r.normals, textures |-> r.textures]

\* the records after the loops
MeshTail(st) ==
    st.s \o <<Line("Vertices: %d", <<Len(st.verts)>>)>>
         \o [k \in 1..Len(st.verts) |-> Line("%.6f %.6f %.6f", st.verts[k])]
         \o <<Line("Normals: %d", <<Len(st.normals)>>)>>
         \o [k \in 1..Len(st.normals) |-> Line("%.6f %.6f %.6f", st.normals[k])]
         \o <<Line("TexCoords: %d", <<Len(st.textures)>>)>>
         \o [k \in 1..Len(st.textures) |-> Line("%.6f %.6f", st.textures[k])]

\* the two loops, from face f, corner i on
RECURSIVE IndexFaces(_, _, _, _)
IndexFaces(st, m, f, i) ==
    IF f > Len(m.faces) THEN st
    ELSE IF i > Len(m.faces[f].verts) THEN IndexFaces(st, m, f + 1, 1)
    ELSE IndexFaces(IndexCorner(st, m, f, i), m, f, i + 1)

\* the whole function: mesh.faces[0] raises IndexError on a mesh without faces
dumpMeshData(s0, m) ==
    IF Len(m.faces) = 0
    THEN [raised |-> TRUE, s |-> s0]
    ELSE [raised |-> FALSE,
          s |-> MeshTail(IndexFaces([s |-> Append(s0, MeshHeader(m)),
                                     verts |-> <<>>, normals |-> <<>>,
                                     textures |-> <<>>], m, 1, 1))]

----------------------------------------------------------------------------
(* dumpTransform, dumpMaterialData, dumpTextureData, valid_tex *)

\* A Python string that may be None is the 1-tuple of its text, or None.
Str(x) == <<x>>

\* Blender.Texture.MapTo: the channel bits of a texture slot's mapto
MapTo == [COL |-> 1, NOR |-> 2, CSP |-> 4, CMIR |-> 8, REF |-> 16]

\* a | b on non-negative integers
RECURSIVE BitOr(_, _)
BitOr(a, b) ==
    IF a = 0 THEN b
    ELSE IF b = 0 THEN a
    ELSE (IF a % 2 = 1 \/ b % 2 = 1 THEN 1 ELSE 0) + 2 * BitOr(a \div 2, b \div 2)

dumpTransform(s0, matrix) ==
    Append(s0, Line("Transform: ", <<>>))
        \o [r \in 1..Len(matrix) |-> Line("%.6f %.6f %.6f %.6f", matrix[r])]

dumpMaterialData(s0, m) ==
    IF m # None
    THEN s0 \o <<Line("Materials: 1", <<>>),
                 Line("Diffuse: %.6f %.6f %.6f %.6f",
                      <<m.rgbCol[1], m.rgbCol[2], m.rgbCol[3], m.alpha>>),
                 Line("Specular: %.6f %.6f %.6f %.6f",
                      <<m.specR, m.specG, m.specB, One>>),
                 Line("Shininess: %.6f", <<(m.hard * One) \div 2>>)>>
    ELSE Append(s0, Line("Materials: 0", <<>>))

valid_tex(tex) ==
    ~ \/ tex = None
      \/ tex.tex = None
      \/ tex.tex.type # "Image"
      \/ tex.tex.image = None
      \/ tex.tex.image.filename = None
      \/ tex.tex.image.filename = Str("")

\* the loop "for t in mat.getTextures(): if (valid_tex(t)): rT += [t]"
RECURSIVE ValidSlots(_)
ValidSlots(ts) ==
    IF ts = <<>> THEN <<>>
    ELSE IF valid_tex(Head(ts)) THEN <<Head(ts)>> \o ValidSlots(Tail(ts))
    ELSE ValidSlots(Tail(ts))

\* the eleven records of one slot; a | b == c parses as (a | b) == c
TextureRecords(t) ==
    <<Line("Image: %s", <<t.tex.image.filename>>),
      Line("Mipmap: %d", <<t.tex.mipmap>>),
      Line("NormalMap: %d", <<t.tex.normalMap>>),
      Line("EdgeMode: %d", <<t.tex.extend>>),
      Line("Interpolate: %d", <<t.tex.interpol>>),
      Line("Color: %.6f %.6f %.6f 1", t.col),
      Line("CoordSource: %d", <<t.texco>>),
      Line("BlendMode: %d", <<t.blendmode>>),
      Line("AffectsColor: %d", <<int(BitOr(MapTo.COL, t.mapto) = MapTo.COL)>>),
      Line("AffectsNormals: %d", <<int(BitOr(MapTo.NOR, t.mapto) = MapTo.NOR)>>),
      Line("AffectsReflection: %d", <<int(BitOr(MapTo.REF, t.mapto) = MapTo.REF)>>)>>

\* the loop "for t in rT"
RECURSIVE AllTextureRecords(_)
AllTextureRecords(rT) ==
    IF rT = <<>> THEN <<>>
    ELSE TextureRecords(Head(rT)) \o AllTextureRecords(Tail(rT))

dumpTextureData(s0, m) ==
    IF m # None
    THEN LET rT == ValidSlots(m.textures)
         IN  Append(s0, Line("Textures: %d", <<min(4, Len(rT))>>))
                 \o AllTextureRecords(rT)
    ELSE Append(s0, Line("Textures 0", <<>>))

----------------------------------------------------------------------------
(* exportDump *)

\* lines 48-52: slot 0, then the scan while the material is None
RECURSIVE ScanMaterials(_, _, _)
ScanMaterials(m, i, mats) ==
    IF m = None /\ i < Len(mats)
    THEN ScanMaterials(mats[i + 1], i + 1, mats)
    ELSE m

\* lines 47-58 for one object: the records so far, and whether it raised
\* (mats[0] on an empty list, mesh.faces[0] on a mesh without faces)
DumpOneObject(strs, object) ==
    LET mats == object.data.materials
    IN  IF Len(mats) = 0
        THEN [raised |-> TRUE, s |-> strs]
        ELSE LET m == ScanMaterials(mats[1], 1, mats)
                 s1 == Append(strs, Line("Object: %s", <<object.name>>))
                 s2 == dumpTransform(s1, object.matrixWorld)
                 s3 == dumpTextureData(s2, m)
                 s4 == dumpMaterialData(s3, m)
             IN  dumpMeshData(s4, object.data)

\* lines 39-41: the objects that are not None and are meshes
RECURSIVE MeshObjects(_)
MeshObjects(tO) ==
    IF tO = <<>> THEN <<>>
    ELSE IF Head(tO) # None /\ Head(tO).type = "Mesh"
         THEN <<Head(tO)>> \o MeshObjects(Tail(tO))
         ELSE MeshObjects(Tail(tO))

----------------------------------------------------------------------------
(* The meshes dumpMeshData is run on *)

\* a Blender face has 3 or 4 vertices
FaceSizes == {3, 4}

Dev(vec, a, d) == [vec EXCEPT ![a] = @ + d]

\* a base value and its deviations of 1..MaxDev units on one axis
Devs(base) == {base} \cup {Dev(base, a, d) : a \in 1..Len(base), d \in 1..MaxDev}

P0 == <<0, 0, 0>>
N0 == <<0, 0, One>>
T0 == <<0, 0>>
\* a normal far from N0: the normal a face does not use (the face normal of a
\* smooth face, the vertex normals of a flat face)
NSide == <<One, 0, 0>>

Corner(p, n, t, uv) == [co |-> p, no |-> n, t |-> IF uv THEN t ELSE None]

\* corners that leave the base corner in at most one attribute, on one axis
DenseCorners(uv) ==
    {Corner(p, N0, T0, uv) : p \in Devs(P0)}
    \cup {Corner(P0, n, T0, uv) : n \in Devs(N0)}
    \cup {Corner(P0, N0, t, uv) : t \in Devs(T0)}

\* two corners: the base, and one that differs from it in position
SparseCorners(uv) ==
    {Corner(P0, N0, T0, uv), Corner(Dev(P0, 1, m_eps), N0, T0, uv)}

SmoothFace(c, uv) ==
    [smooth |-> TRUE, no |-> NSide,
     verts |-> [i \in 1..Len(c) |-> [co |-> c[i].co, no |-> c[i].no]],
     uv |-> IF uv THEN [i \in 1..Len(c) |-> c[i].t] ELSE <<>>]

FlatFace(fn, c, uv) ==
    [smooth |-> FALSE, no |-> fn,
     verts |-> [i \in 1..Len(c) |-> [co |-> c[i].co, no |-> NSide]],
     uv |-> IF uv THEN [i \in 1..Len(c) |-> c[i].t] ELSE <<>>]

RECURSIVE NCorners(_)
NCorners(fs) == IF fs = <<>> THEN 0 ELSE Len(Head(fs).verts) + NCorners(Tail(fs))

\* one smooth triangle, its corners dense
DenseMeshes ==
    {[faceUV |-> uv, faces |-> <<SmoothFace(c, uv)>>] :
        uv \in BOOLEAN, c \in [1..3 -> DenseCorners(TRUE)]}

\* smooth and flat faces of sparse corners, the flat ones of two normals
SparseFaces(uv) ==
    UNION {{SmoothFace(c, uv) : c \in [1..k -> SparseCorners(uv)]}
           \cup {FlatFace(fn, c, uv) : fn \in {N0, Dev(N0, 1, m_eps)},
                                       c \in [1..k -> SparseCorners(uv)]} :
           k \in FaceSizes}

\* up to MaxCorners corners in any number of faces (none included), sparse
SparseMeshes ==
    UNION {{[faceUV |-> uv, faces |-> fs] :
               fs \in {x \in [1..k -> SparseFaces(uv)] : NCorners(x) <= MaxCorners}} :
           uv \in BOOLEAN, k \in 0..(MaxCorners \div 3)}

MeshInputs == DenseMeshes \cup SparseMeshes

----------------------------------------------------------------------------
(* dumpMeshData, one loop iteration at a time *)

MeshIdle ==
    /\ mesh = None /\ fi = 0 /\ ci = 0
    /\ verts = <<>> /\ normals = <<>> /\ textures = <<>>
    /\ calls = <<>> /\ vertsBy = <<>> /\ normalsBy = <<>> /\ texturesBy = <<>>

TexIdle == mat = None

ExportIdle ==
    /\ scene = None /\ objects = <<>> /\ oi = 0 /\ strings = <<>>
    /\ disk0 = None /\ disk = None /\ fout = FALSE

InitMesh ==
    /\ pc = "dumpMeshData"
    /\ mesh \in MeshInputs
    /\ fi = 0 /\ ci = 0 /\ s = <<>>
    /\ verts = <<>> /\ normals = <<>> /\ textures = <<>>
    /\ calls = <<>> /\ vertsBy = <<>> /\ normalsBy = <<>> /\ texturesBy = <<>>
    /\ TexIdle /\ ExportIdle

\* lines 68-73: the three empty lists and the header
MeshBegin ==
    /\ pc = "dumpMeshData"
    /\ IF Len(mesh.faces) = 0
       THEN /\ pc' = "raised"
            /\ UNCHANGED <<s, fi, ci>>
       ELSE /\ pc' = "indexing"
            /\ s' = Append(s, MeshHeader(mesh))
            /\ fi' = 1 /\ ci' = 1
    /\ verts' = <<>> /\ normals' = <<>> /\ textures' = <<>>
    /\ UNCHANGED <<mesh, calls, vertsBy, normalsBy, texturesBy, mat>>
    /\ UNCHANGED exportVars

\* lines 74-84: one iteration of the inner loop
MeshCorner ==
    /\ pc = "indexing" /\ fi <= Len(mesh.faces)
    /\ LET face == mesh.faces[fi]
           st == IndexCorner([s |-> s, verts |-> verts, normals |-> normals,
                              textures |-> textures], mesh, fi, ci)
           k == Len(calls) + 1
       IN  /\ s' = st.s
           /\ verts' = st.verts /\ normals' = st.normals /\ textures' = st.textures
           /\ calls' = Append(calls, [v |-> face.verts[ci].co,
                                      n |-> CornerNormal(face, ci),
                                      t |-> CornerUV(mesh, face, ci),
                                      index |-> st.s[Len(st.s)][2][1],
                                      before |-> Len(verts)])
           /\ vertsBy' = IF Len(st.verts) > Len(verts)
                         THEN Append(vertsBy, k) ELSE vertsBy
           /\ normalsBy' = IF Len(st.normals) > Len(normals)
                           THEN Append(normalsBy, k) ELSE normalsBy
           /\ texturesBy' = IF Len(st.textures) > Len(textures)
                            THEN Append(texturesBy, k) ELSE texturesBy
           /\ IF ci < Len(face.verts)
              THEN ci' = ci + 1 /\ fi' = fi
              ELSE ci' = 1 /\ fi' = fi + 1
    /\ UNCHANGED <<pc, mesh, mat>>
    /\ UNCHANGED exportVars

\* lines 86-96: the three arrays
MeshEnd ==
    /\ pc = "indexing" /\ fi > Len(mesh.faces)
    /\ s' = MeshTail([s |-> s, verts |-> verts, normals |-> normals,
                      textures |-> textures])
    /\ pc' = "done"
    /\ UNCHANGED <<mat>>
    /\ UNCHANGED meshVars
    /\ UNCHANGED exportVars

NextMesh == MeshBegin \/ MeshCorner \/ MeshEnd

SpecMesh == InitMesh /\ [][NextMesh]_vars

----------------------------------------------------------------------------
(* dumpTextureData on the materials of bounded slot lists.  A list of n     *)
(* slots stands for the tuple getTextures() returns whose other slots are   *)
(* None.                                                                    *)

Image(name) == [filename |-> name]

Texture(type, image) ==
    [type |-> type, image |-> image, mipmap |-> 1, normalMap |-> 0,
     extend |-> 3, interpol |-> 1]

Slot(tex, mapto) ==
    [tex |-> tex, col |-> <<One, 0, One>>, texco |-> 16, blendmode |-> 0,
     mapto |-> mapto]

ValidSlot(name, mapto) == Slot(Texture("Image", Image(Str(name))), mapto)

Material(ts) ==
    [rgbCol |-> <<One, One \div 2, 0>>, alpha |-> One,
     specR |-> One, specG |-> One, specB |-> One, hard |-> 50, textures |-> ts]

\* empty slots and valid slots of two images that affect the colour
PlainSlots == {None, ValidSlot("a.png", MapTo.COL), ValidSlot("b.png", MapTo.COL)}

\* every way valid_tex rejects a slot, and valid slots of every bitmask
WideSlots ==
    {None, Slot(None, MapTo.COL), Slot(Texture("Clouds", None), MapTo.COL),
     Slot(Texture("Image", None), MapTo.COL),
     Slot(Texture("Image", Image(None)), MapTo.COL),
     Slot(Texture("Image", Image(Str(""))), MapTo.COL)}
    \cup {ValidSlot("a.png", m) : m \in 0..MaxMapTo}

SlotLists(slots, n) == UNION {[1..k -> slots] : k \in 0..n}

TexInputs ==
    {None}
    \cup {Material(ts) : ts \in SlotLists(PlainSlots, MaxSlots)}
    \cup {Material(ts) : ts \in SlotLists(WideSlots, MaxWideSlots)}

InitTex ==
    /\ pc = "dumpTextureData"
    /\ mat \in TexInputs
    /\ s = <<>>
    /\ MeshIdle /\ ExportIdle

\* lines 142-162
DumpTextureData ==
    /\ pc = "dumpTextureData"
    /\ s' = dumpTextureData(s, mat)
    /\ pc' = "done"
    /\ UNCHANGED <<mat>>
    /\ UNCHANGED meshVars
    /\ UNCHANGED exportVars

NextTex == DumpTextureData

SpecTex == InitTex /\ [][NextTex]_vars

----------------------------------------------------------------------------
(* exportDump on bounded scenes *)

M1 == [Material(<<ValidSlot("a.png", MapTo.COL)>>) EXCEPT !.hard = 50]
M2 == [Material(<<>>) EXCEPT !.rgbCol = <<0, 0, One>>, !.hard = 100]

\* the material-slot arrays of the sample meshes
MaterialLists ==
    {<<>>, <<None, None>>, <<M1>>, <<None, None, M1>>, <<M1, M2>>,
     <<None, M2, M1>>}

\* a flat triangle and a flat quad that share an edge, without UVs
TriangleAndQuad ==
    <<FlatFace(N0, <<Corner(<<0, 0, 0>>, N0, T0, FALSE),
                     Corner(<<One, 0, 0>>, N0, T0, FALSE),
                     Corner(<<0, One, 0>>, N0, T0, FALSE)>>, FALSE),
      FlatFace(N0, <<Corner(<<One, 0, 0>>, N0, T0, FALSE),
                     Corner(<<One, One, 0>>, N0, T0, FALSE),
                     Corner(<<0, 2 * One, 0>>, N0, T0, FALSE),
                     Corner(<<0, One, 0>>, N0, T0, FALSE)>>, FALSE)>>

MeshData == {[faceUV |-> FALSE, faces |-> fs, materials |-> ms] :
                fs \in {<<>>, TriangleAndQuad}, ms \in MaterialLists}

Identity == <<<<One, 0, 0, 0>>, <<0, One, 0, 0>>, <<0, 0, One, 0>>, <<0, 0, 0, One>>>>

SceneObjects ==
    {[name |-> "Cube", type |-> "Mesh", matrixWorld |-> Identity, data |-> d] :
        d \in MeshData}
    \cup {[name |-> "Lamp", type |-> "Lamp", matrixWorld |-> Identity, data |-> None]}

ObjectLists == UNION {[1..k -> SceneObjects] : k \in 0..MaxObjects}

\* either some objects are selected, or none is
Scenes ==
    {[selected |-> x, all |-> x] : x \in ObjectLists}
    \cup {[selected |-> <<>>, all |-> x] : x \in ObjectLists}

InitExport ==
    /\ pc = "exportDump"
    /\ scene \in Scenes
    /\ disk0 \in {None, <<Str("an older dump")>>}
    /\ disk = disk0
    /\ objects = <<>> /\ oi = 0 /\ strings = <<>> /\ fout = FALSE
    /\ s = <<>>
    /\ MeshIdle /\ TexIdle

\* lines 35-45
SelectObjects ==
    /\ pc = "exportDump"
    /\ LET tO == IF Len(scene.selected) = 0 THEN scene.all ELSE scene.selected
       IN  /\ objects' = MeshObjects(tO)
           /\ IF Len(MeshObjects(tO)) = 0
              THEN pc' = "returned" /\ oi' = oi
              ELSE pc' = "loop" /\ oi' = 1
    /\ strings' = <<>>
    /\ UNCHANGED <<scene, disk0, disk, fout, s, mat>>
    /\ UNCHANGED meshVars

\* lines 46-58: one iteration of the loop over objects
DumpObject ==
    /\ pc = "loop" /\ oi <= Len(objects)
    /\ LET r == DumpOneObject(strings, objects[oi])
       IN  /\ strings' = r.s
           /\ IF r.raised
              THEN pc' = "raised" /\ oi' = oi
              ELSE pc' = pc /\ oi' = oi + 1
    /\ UNCHANGED <<scene, objects, disk0, disk, fout, s, mat>>
    /\ UNCHANGED meshVars

\* mutant of OpenFile: the file is opened before the loop over objects
OpenFileFirst ==
    /\ pc = "loop" /\ oi = 1 /\ ~fout
    /\ disk' = <<>>
    /\ fout' = TRUE
    /\ pc' = IF oi > Len(objects) THEN "write" ELSE pc
    /\ UNCHANGED <<scene, objects, oi, strings, disk0, s, mat>>
    /\ UNCHANGED meshVars

\* line 60: open(..., "w") creates or truncates the file
OpenFile ==
    /\ pc = "loop" /\ oi > Len(objects)
    /\ disk' = <<>>
    /\ fout' = TRUE
    /\ pc' = "write"
    /\ UNCHANGED <<scene, objects, oi, strings, disk0, s, mat>>
    /\ UNCHANGED meshVars

\* lines 61-64: every record is written, the file flushed and closed
WriteFile ==
    /\ pc = "write" /\ fout
    /\ disk' = disk \o [k \in 1..Len(strings) |-> Line("%s\n", <<strings[k]>>)]
    /\ fout' = FALSE
    /\ pc' = "done"
    /\ UNCHANGED <<scene, objects, oi, strings, disk0, s, mat>>
    /\ UNCHANGED meshVars

NextExport == SelectObjects \/ DumpObject \/ OpenFile \/ WriteFile

SpecExport == InitExport /\ [][NextExport]_vars

\* every function, each on its own inputs
Init == InitMesh \/ InitTex \/ InitExport

Next == NextMesh \/ NextTex \/ NextExport

Spec == Init /\ [][Next]_vars

----------------------------------------------------------------------------
(* What the claims about the mesh indexer speak of *)

Abs(x) == IF x < 0 THEN -x ELSE x

\* the tolerance 2^-23
Eps == One \div 2^23

\* |a - b| < eps on every component
Within(a, b) ==
    /\ Len(a) = Len(b)
    /\ \A k \in 1..Len(a) : Abs(a[k] - b[k]) < Eps

\* a and b differ by exactly d on one axis and are equal on the others
DifferOnOneAxisBy(a, b, d) ==
    \E x \in 1..Len(a) :
        /\ Abs(a[x] - b[x]) = d
        /\ \A y \in 1..Len(a) : y # x => a[y] = b[y]

\* the entries among the first b that match corner c in every attribute
FullMatches(c, b) ==
    {i \in 1..b : /\ i <= Len(verts) /\ Within(verts[i], c.v)
                  /\ i <= Len(normals) /\ Within(normals[i], c.n)
                  /\ c.t # None => (i <= Len(textures) /\ Within(textures[i], c.t))}

\* the entries among the first b that match corner c in position
PosMatches(c, b) == {i \in 1..b : i <= Len(verts) /\ Within(verts[i], c.v)}

SetMin(S) == CHOOSE x \in S : \A y \in S : x <= y

\* the length of verts right after call k
LenAfter(k) == IF k < Len(calls) THEN calls[k + 1].before ELSE Len(verts)

CountFmt(seq, fmt) == Cardinality({k \in 1..Len(seq) : seq[k][1] = fmt})

\* the first argument of the first record of format fmt
ArgOf(seq, fmt) ==
    LET k == CHOOSE k \in 1..Len(seq) : seq[k][1] = fmt IN seq[k][2]

Indexing == pc \in {"indexing", "done"}

\* C1: a corner reuses an entry exactly when some earlier entry matches it on
\* position, normal and (with UVs) UV, each within the tolerance, and then gets
\* the first such entry; otherwise it is appended at the end and gets the new
\* last offset.
C1_ReuseIffFullMatch ==
    \A k \in 1..Len(calls) :
        LET c == calls[k]
            M == FullMatches(c, c.before)
        IN  IF M # {}
            THEN /\ c.index = SetMin(M) - 1
                 /\ LenAfter(k) = c.before
            ELSE /\ c.index = c.before
                 /\ LenAfter(k) = c.before + 1
                 /\ Len(verts) > c.before /\ verts[c.before + 1] = c.v
                 /\ Len(normals) > c.before /\ normals[c.before + 1] = c.n
                 /\ c.t # None =>
                       (Len(textures) > c.before /\ textures[c.before + 1] = c.t)

\* a corner was appended although an entry matched its position, and a later
\* corner reused an entry
C1_Witness ==
    \E j, k \in 1..Len(calls) :
        /\ j < k
        /\ calls[j].index = calls[j].before
        /\ PosMatches(calls[j], calls[j].before) # {}
        /\ calls[k].index < calls[k].before

\* C2: every index returned so far is within the positions array, and the
\* position stored there is within the tolerance of the corner's position.
C2_IndexInRangeAndNear ==
    \A k \in 1..Len(calls) :
        /\ 0 <= calls[k].index
        /\ calls[k].index < Len(verts)
        /\ Within(verts[calls[k].index + 1], calls[k].v)

\* a corner reused an entry whose position is not its own
C2_Witness ==
    \E k \in 1..Len(calls) :
        /\ calls[k].index < calls[k].before
        /\ verts[calls[k].index + 1] # calls[k].v

\* C3: of the first two corners of a mesh, with equal normal and UV: if their
\* positions differ by exactly eps on one axis they get two entries, if by
\* eps/2 they get one entry and the same index.
C3_ToleranceBoundary ==
    Len(calls) >= 2 =>
        LET a == calls[1]
            b == calls[2]
        IN  (a.n = b.n /\ a.t = b.t) =>
                /\ DifferOnOneAxisBy(a.v, b.v, Eps) =>
                       (a.index # b.index /\ LenAfter(2) = 2)
                /\ DifferOnOneAxisBy(a.v, b.v, Eps \div 2) =>
                       (a.index = b.index /\ LenAfter(2) = 1)

\* the first two corners are exactly eps apart on the third axis
C3_Witness ==
    /\ Len(calls) >= 2
    /\ calls[1].n = calls[2].n /\ calls[1].t = calls[2].t
    /\ calls[2].v = Dev(calls[1].v, 3, Eps)
    /\ Len(verts) >= 2

\* C4: the number of index records equals the sum of the faces' corner counts,
\* the first number of the "Indices:" record equals the number of index
\* records, and the second the corner count of the first face.
C4_IndexCountHeader ==
    pc = "done" =>
        /\ CountFmt(s, "%d") = NCorners(mesh.faces)
        /\ ArgOf(s, "Indices: %d %d")[1] = CountFmt(s, "%d")
        /\ ArgOf(s, "Indices: %d %d")[2] = Len(mesh.faces[1].verts)

\* C9: normals is as long as positions, entry for entry appended by the same
\* corner; texcoords likewise with per-face UVs, empty without; the emitted
\* counts agree and none exceeds the number of corners processed.
C9_ArraysAligned ==
    Indexing =>
        /\ Len(normals) = Len(verts)
        /\ normalsBy = vertsBy
        /\ IF mesh.faceUV
           THEN Len(textures) = Len(verts) /\ texturesBy = vertsBy
           ELSE textures = <<>>
        /\ Len(verts) <= Len(calls)
        /\ \A i \in 1..Len(vertsBy) :
               /\ verts[i] = calls[vertsBy[i]].v
               /\ normals[i] = calls[vertsBy[i]].n
               /\ mesh.faceUV => textures[i] = calls[vertsBy[i]].t
        /\ pc = "done" =>
               /\ ArgOf(s, "Normals: %d")[1] = ArgOf(s, "Vertices: %d")[1]
               /\ ArgOf(s, "TexCoords: %d")[1] \in {0, ArgOf(s, "Vertices: %d")[1]}
               /\ ArgOf(s, "Vertices: %d")[1] <= CountFmt(s, "%d")
               /\ ArgOf(s, "TexCoords: %d")[1] = (IF mesh.faceUV THEN Len(verts) ELSE 0)

\* a mesh with UVs is indexed to the end, with entries appended and reused
C9_Witness ==
    /\ pc = "done" /\ mesh.faceUV
    /\ Len(verts) >= 2 /\ Len(verts) < Len(calls)
    /\ ArgOf(s, "TexCoords: %d")[1] = Len(verts)

\* C10: no two entries match each other within the tolerance on position, on
\* normal and (with UVs) on UV at once.
C10_NoDuplicateEntries ==
    Indexing =>
        \A i, j \in 1..Len(verts) :
            i < j => ~ /\ Within(verts[i], verts[j])
                       /\ Within(normals[i], normals[j])
                       /\ mesh.faceUV => Within(textures[i], textures[j])

\* two entries share a position and differ in another attribute
C10_Witness ==
    /\ pc = "done"
    /\ \E i, j \in 1..Len(verts) :
           i < j /\ Within(verts[i], verts[j]) /\ ~Within(normals[i], normals[j])
    /\ \E i, j \in 1..Len(verts) :
           i < j /\ Within(verts[i], verts[j]) /\ mesh.faceUV
           /\ ~Within(textures[i], textures[j])

----------------------------------------------------------------------------
(* What the claims about the scene dump writer speak of *)

\* whether bitmask m includes the channel bit b (a power of two)
HasBit(m, b) == (m \div b) % 2 = 1

\* the records of format fmt, in order
RECURSIVE OfFmt(_, _)
OfFmt(seq, fmt) ==
    IF seq = <<>> THEN <<>>
    ELSE IF Head(seq)[1] = fmt THEN <<Head(seq)>> \o OfFmt(Tail(seq), fmt)
    ELSE OfFmt(Tail(seq), fmt)

\* C5: with k valid slots the header is "Textures: min(4, k)" and exactly
\* min(4, k) record groups follow, those of the first min(4, k) valid slots.
C5_TextureCap ==
    (pc = "done" /\ mat # None) =>
        LET rT == ValidSlots(mat.textures)
            n == min(4, Len(rT))
            images == OfFmt(s, "Image: %s")
        IN  /\ s[1] = Line("Textures: %d", <<n>>)
            /\ Len(images) = n
            /\ Len(s) = 1 + 11 * n
            /\ \A j \in 1..n : images[j][2][1] = rT[j].tex.image.filename

\* C7: the three flags of a valid slot are 1 exactly when its bitmask
\* includes the colour, normal or reflection bit, whatever other bits are set.
C7_AffectsFlags ==
    (pc = "done" /\ mat # None) =>
        LET rT == ValidSlots(mat.textures)
            col == OfFmt(s, "AffectsColor: %d")
            nor == OfFmt(s, "AffectsNormals: %d")
            ref == OfFmt(s, "AffectsReflection: %d")
        IN  \A j \in 1..Len(rT) :
                /\ j <= Len(col) /\ col[j][2][1] = int(HasBit(rT[j].mapto, MapTo.COL))
                /\ j <= Len(nor) /\ nor[j][2][1] = int(HasBit(rT[j].mapto, MapTo.NOR))
                /\ j <= Len(ref) /\ ref[j][2][1] = int(HasBit(rT[j].mapto, MapTo.REF))

\* the objects the loop has been entered for
Handled == IF pc = "raised" THEN 1..oi ELSE 1..(oi - 1)

\* the records of the j-th object: from its "Object: %s" record to the next
ObjectStarts == {k \in 1..Len(strings) : strings[k][1] = "Object: %s"}

BlockOf(j) ==
    IF Cardinality(ObjectStarts) < j THEN <<>>
    ELSE LET from == CHOOSE k \in ObjectStarts :
                         Cardinality({m \in ObjectStarts : m <= k}) = j
             later == {k \in ObjectStarts : k > from}
             to == IF later = {} THEN Len(strings) ELSE SetMin(later) - 1
         IN  SubSeq(strings, from, to)

\* C6: the material of an object is slot 0 if it is not null, else the first
\* slot that is not null; without such a slot (all null, or no slots) the
\* object has no material and "Materials: 0" is emitted for it, without failure.
C6_MaterialFallback ==
    \A j \in Handled :
        LET mats == objects[j].data.materials
            used == {i \in 1..Len(mats) : mats[i] # None}
            block == BlockOf(j)
        IN  IF used = {}
            THEN Len(OfFmt(block, "Materials: 0")) = 1
            ELSE /\ Len(OfFmt(block, "Materials: 1")) = 1
                 /\ OfFmt(block, "Diffuse: %.6f %.6f %.6f %.6f") =
                        OfFmt(dumpMaterialData(<<>>, mats[SetMin(used)]),
                              "Diffuse: %.6f %.6f %.6f %.6f")

\* every object has its records, from "Object:" to "TexCoords:"
AllRecordsBuilt ==
    /\ oi = Len(objects) + 1
    /\ Len(OfFmt(strings, "Object: %s")) = Len(objects)
    /\ Len(OfFmt(strings, "TexCoords: %d")) = Len(objects)

\* C8: the output file is opened only after the data of every object has been
\* queried and every record built; when a query fails for an object (a mesh
\* without faces included) no file is created and an existing one is unchanged.
C8_FileOpenedLast ==
    /\ (fout \/ disk # disk0) => (pc \in {"write", "done"} /\ AllRecordsBuilt)
    /\ pc = "raised" => (disk = disk0 /\ ~fout)
    /\ pc = "done" => disk = [k \in 1..Len(strings) |-> Line("%s\n", <<strings[k]>>)]

\* the second object is a mesh without faces, and an older file exists
C8_Witness ==
    /\ pc = "raised" /\ oi = 2
    /\ Len(objects[2].data.materials) > 0 /\ Len(objects[2].data.faces) = 0
    /\ Len(strings) > 0
    /\ disk0 # None /\ disk = disk0

====
